---------------------------- MODULE Spec2Model ----------------------------
(***************************************************************************)
(* A model of the VAIS / SERP evaluation scripts:                          *)
(*   - src/src/vais/search.py   convert_to_human_readable_date, get         *)
(*   - src/src/eval/consolidate.py  load / filter / rank / save             *)
(*   - src/src/eval/serp.py, src/src/eval/vais.py  evaluate, retrying fetch *)
(* Strings are sequences of one-character strings, so that slicing,        *)
(* prefix tests, substring search, parsing and formatting are computed.    *)
(***************************************************************************)
EXTENDS Integers, Sequences, FiniteSets, TLC

VARIABLES
    \* --- vais/search.py: one call of convert_to_human_readable_date
    date_str,       \* the argument of the call
    zeroPadYear,    \* whether the platform's strftime pads %Y to four digits
    dpc,            \* "call" | "returned" | "raised"
    dret,           \* the value returned ("" when nothing was returned)
    dexc,           \* the exception that escaped ("" when none)
    \* --- eval/consolidate.py: one run of the consolidation pipeline
    files,          \* the tables read by pd.read_csv, one per path
    df,             \* the DataFrame the pipeline is working on
    df_in,          \* the DataFrame handed to the stage that ran last
    date_dtype,     \* dtype of df's creation_date column
    cpc,            \* position in run()
    saved,          \* the rows written by to_csv
    \* --- eval/serp.py, eval/vais.py: one run of evaluate
    backend,        \* "serp" (eval/serp.py) | "vais" (eval/vais.py)
    credentials,    \* whether the API key file / the cloud credentials exist
    input,          \* the rows of the input CSV
    row,            \* 1-based index of the input row being processed
    log,            \* what the attempts made so far for this row met
    status,         \* per finished row: how its fetch ended, what it returned
    results,        \* evaluate's `results` list
    epc,            \* position in evaluate
    written,        \* what jsonlines wrote
    fatal           \* what made evaluate re-raise ("" while nothing did)

dateVars == <<date_str, zeroPadYear, dpc, dret, dexc>>
consVars == <<files, df, df_in, date_dtype, cpc, saved>>
evalVars == <<backend, credentials, input, row, log, status, results, epc, written, fatal>>
vars == <<dateVars, consVars, evalVars>>

(***************************************************************************)
(* Characters and strings                                                  *)
(***************************************************************************)
DigitChars == <<"0", "1", "2", "3", "4", "5", "6", "7", "8", "9">>

IsDigit(c) == \E i \in 1..10 : DigitChars[i] = c

DigitVal(c) == (CHOOSE i \in 1..10 : DigitChars[i] = c) - 1

AllDigits(s) == \A i \in 1..Len(s) : IsDigit(s[i])

RECURSIVE NumVal(_)
NumVal(s) == IF s = <<>> THEN 0
             ELSE 10 * NumVal(SubSeq(s, 1, Len(s) - 1)) + DigitVal(s[Len(s)])

\* Python slices: s[:n] and s[n:]
Take(s, n) == SubSeq(s, 1, IF n < Len(s) THEN n ELSE Len(s))
Drop(s, n) == SubSeq(s, n + 1, Len(s))

StartsWith(s, p) == Len(s) >= Len(p) /\ SubSeq(s, 1, Len(p)) = p

\* the decimal digits of n, zero-filled to at least w characters
RECURSIVE Decimal(_)
Decimal(n) == IF n < 10 THEN <<DigitChars[n + 1]>>
              ELSE Decimal(n \div 10) \o <<DigitChars[(n % 10) + 1]>>

RECURSIVE ZeroFill(_, _)
ZeroFill(s, w) == IF Len(s) >= w THEN s ELSE ZeroFill(<<"0">> \o s, w)

(***************************************************************************)
(* The proleptic Gregorian calendar of datetime                            *)
(***************************************************************************)
MINYEAR == 1
MAXYEAR == 9999

IsLeap(y) == (y % 4 = 0) /\ ((y % 100 # 0) \/ (y % 400 = 0))

DaysInMonth(y, m) ==
    IF m = 2 THEN (IF IsLeap(y) THEN 29 ELSE 28)
    ELSE IF m \in {4, 6, 9, 11} THEN 30 ELSE 31

DaysBeforeYear(y) ==
    (y - 1) * 365 + ((y - 1) \div 4) - ((y - 1) \div 100) + ((y - 1) \div 400)

RECURSIVE DaysBeforeMonth(_, _)
DaysBeforeMonth(y, m) ==
    IF m = 1 THEN 0 ELSE DaysBeforeMonth(y, m - 1) + DaysInMonth(y, m - 1)

\* date.toordinal(): 0001-01-01 is day 1
ToOrdinal(y, m, d) == DaysBeforeYear(y) + DaysBeforeMonth(y, m) + d

MaxOrdinal == ToOrdinal(MAXYEAR, 12, 31)

\* date.fromordinal(n), for 1 <= n <= MaxOrdinal
FromOrdinal(n) ==
    LET y0 == (n - 1) \div 366 + 1
        y  == CHOOSE y \in y0..(y0 + 30) :
                  DaysBeforeYear(y) < n /\ n <= DaysBeforeYear(y + 1)
        r  == n - DaysBeforeYear(y)
        m  == CHOOSE m \in 1..12 :
                  DaysBeforeMonth(y, m) < r
                  /\ r <= DaysBeforeMonth(y, m) + DaysInMonth(y, m)
    IN  [year |-> y, month |-> m, day |-> r - DaysBeforeMonth(y, m)]


(***************************************************************************)
(* datetime.strptime                                                       *)
(* The format is compiled to a regular expression whose numeric fields are *)
(* alternations tried in order; the first way of cutting the text that     *)
(* matches is taken, and text left over after it is an error.  A parse is  *)
(* [ok |-> FALSE] (ValueError) or [ok |-> TRUE, year, month, day, hour].   *)
(***************************************************************************)
ParseError == [ok |-> FALSE, year |-> 0, month |-> 0, day |-> 0, hour |-> 0]

\* the text a field of alternative `alt` takes at position p of s (<<>> if none fits)
FieldLen(name, alt) == IF name = "d" THEN (IF alt = 2 THEN 1 ELSE 2)
                       ELSE (IF alt = 1 THEN 2 ELSE 1)

FieldText(s, p, name, alt) ==
    IF p + FieldLen(name, alt) - 1 <= Len(s)
    THEN SubSeq(s, p, p + FieldLen(name, alt) - 1) ELSE <<>>

\* %m: 1[0-2]|0[1-9]|[1-9]      %d: 3[0-1]|[1-2]\d|0[1-9]|[1-9]| [1-9]
\* %H: 2[0-3]|[0-1]\d|\d        %M: [0-5]\d|\d       %S: 6[0-1]|[0-5]\d|\d
FieldMatches(name, alt, t) ==
    /\ t # <<>>
    /\ IF name = "d" /\ alt = 3
       THEN t[1] = " " /\ IsDigit(t[2]) /\ DigitVal(t[2]) >= 1
       ELSE /\ AllDigits(t)
            /\ LET v == NumVal(t) IN
               CASE name = "m" -> v >= 1 /\ v <= 12
                 [] name = "d" -> v >= 1 /\ v <= 31
                 [] name = "H" -> v <= 23 \/ Len(t) = 1
                 [] name = "M" -> v <= 59
                 [] name = "S" -> v <= 61

FieldValue(t) == IF t[1] = " " THEN DigitVal(t[2]) ELSE NumVal(t)

FieldNames == <<"m", "d", "H", "M", "S">>

\* the ways of choosing one alternative per field, in the matcher's order
Cuts == {c \in [1..5 -> 1..3] : \A i \in {1, 3, 4, 5} : c[i] <= 2}

CutBefore(c, e) ==
    \E i \in 1..5 : c[i] < e[i] /\ \A j \in 1..(i - 1) : c[j] = e[j]

\* where field i starts under cut c (fields follow the four year digits)
RECURSIVE FieldStart(_, _)
FieldStart(c, i) ==
    IF i = 1 THEN 5
    ELSE FieldStart(c, i - 1) + FieldLen(FieldNames[i - 1], c[i - 1])

CutMatches(s, c) ==
    \A i \in 1..5 :
        FieldMatches(FieldNames[i], c[i],
                     FieldText(s, FieldStart(c, i), FieldNames[i], c[i]))

\* the datetime constructor's range checks
ValidDateTime(y, m, d, H, M, S) ==
    /\ y >= MINYEAR /\ y <= MAXYEAR
    /\ m >= 1 /\ m <= 12
    /\ d >= 1 /\ d <= DaysInMonth(y, m)
    /\ H <= 23 /\ M <= 59 /\ S <= 59

\* datetime.strptime(s, "%Y%m%d%H%M%S")
StrptimeCompact(s) ==
    IF ~(Len(s) >= 4 /\ AllDigits(SubSeq(s, 1, 4))) THEN ParseError
    ELSE LET matching == {c \in Cuts : CutMatches(s, c)} IN
      IF matching = {} THEN ParseError
      ELSE LET c == CHOOSE c \in matching :
                        \A e \in matching : e = c \/ CutBefore(c, e)
               f(i) == FieldValue(FieldText(s, FieldStart(c, i), FieldNames[i], c[i]))
               y == NumVal(SubSeq(s, 1, 4))
           IN  IF FieldStart(c, 5) + FieldLen("S", c[5]) - 1 # Len(s)
               THEN ParseError      \* unconverted data remains
               ELSE IF ~ValidDateTime(y, f(1), f(2), f(3), f(4), f(5))
               THEN ParseError
               ELSE [ok |-> TRUE, year |-> y, month |-> f(1), day |-> f(2),
                     hour |-> f(3)]

\* text split at runs of the separator ch; a leading or trailing separator
\* leaves an empty first or last token
RECURSIVE Split(_, _)
Split(s, ch) ==
    IF \A i \in 1..Len(s) : s[i] # ch THEN <<s>>
    ELSE LET k == CHOOSE i \in 1..Len(s) :
                      s[i] = ch /\ \A j \in 1..(i - 1) : s[j] # ch
             RECURSIVE SkipRun(_)
             SkipRun(i) == IF i <= Len(s) /\ s[i] = ch /\ ch = " "
                           THEN SkipRun(i + 1) ELSE i
         IN  <<SubSeq(s, 1, k - 1)>> \o Split(SubSeq(s, SkipRun(k + 1), Len(s)), ch)

Lower(c) ==
    CASE c = "T" -> "t" [] c = "J" -> "j" [] c = "F" -> "f" [] c = "D" -> "d"
      [] c = "M" -> "m" [] c = "S" -> "s" [] c = "W" -> "w" [] OTHER -> c

LowerAll(s) == [i \in 1..Len(s) |-> Lower(s[i])]

\* %a and %b of the C locale, matched ignoring case
DayNames == {<<"m","o","n">>, <<"t","u","e">>, <<"w","e","d">>, <<"t","h","u">>,
             <<"f","r","i">>, <<"s","a","t">>, <<"s","u","n">>}

MonthNames == <<<<"j","a","n">>, <<"f","e","b">>, <<"m","a","r">>, <<"a","p","r">>,
                <<"m","a","y">>, <<"j","u","n">>, <<"j","u","l">>, <<"a","u","g">>,
                <<"s","e","p">>, <<"o","c","t">>, <<"n","o","v">>, <<"d","e","c">>>>

\* a whole token against a numeric field: some alternative matches all of it
TokenMatches(name, t) ==
    \E alt \in 1..2 : Len(t) = FieldLen(name, alt) /\ FieldMatches(name, alt, t)

\* datetime.strptime(s, "%a %b %d %H:%M:%S %Y")
StrptimeCtime(s) ==
    LET tok == Split(s, " ") IN
    IF Len(tok) # 5 THEN ParseError
    ELSE LET hms == Split(tok[4], ":") IN
      IF ~(/\ LowerAll(tok[1]) \in DayNames
           /\ \E m \in 1..12 : MonthNames[m] = LowerAll(tok[2])
           /\ TokenMatches("d", tok[3])
           /\ Len(hms) = 3
           /\ TokenMatches("H", hms[1])
           /\ TokenMatches("M", hms[2])
           /\ TokenMatches("S", hms[3])
           /\ Len(tok[5]) = 4 /\ AllDigits(tok[5]))
      THEN ParseError
      ELSE LET y == NumVal(tok[5])
               m == CHOOSE m \in 1..12 : MonthNames[m] = LowerAll(tok[2])
               d == NumVal(tok[3])
           IN  IF ~ValidDateTime(y, m, d, NumVal(hms[1]), NumVal(hms[2]), NumVal(hms[3]))
               THEN ParseError
               ELSE [ok |-> TRUE, year |-> y, month |-> m, day |-> d,
                     hour |-> NumVal(hms[1])]

(***************************************************************************)
(* int(text): an optional sign, then decimal digits; surrounding white     *)
(* space is ignored.  [ok |-> FALSE] is ValueError.                        *)
(***************************************************************************)
RECURSIVE RStrip(_)
RStrip(s) == IF s # <<>> /\ s[Len(s)] = " " THEN RStrip(SubSeq(s, 1, Len(s) - 1)) ELSE s

RECURSIVE LStrip(_)
LStrip(s) == IF s # <<>> /\ s[1] = " " THEN LStrip(Drop(s, 1)) ELSE s

PyInt(text) ==
    LET s == LStrip(RStrip(text))
        signed == s # <<>> /\ s[1] \in {"+", "-"}
        body == IF signed THEN Drop(s, 1) ELSE s
    IN  IF body = <<>> \/ ~AllDigits(body) THEN [ok |-> FALSE, val |-> 0]
        ELSE [ok |-> TRUE,
              val |-> IF signed /\ s[1] = "-" THEN 0 - NumVal(body) ELSE NumVal(body)]

(***************************************************************************)
(* dt.strftime("%Y-%m-%d").  The C library decides whether a year below    *)
(* 1000 is zero-filled; month and day always are.                          *)
(***************************************************************************)
Strftime(y, m, d, pad) ==
    (IF pad THEN ZeroFill(Decimal(y), 4) ELSE Decimal(y))
    \o <<"-">> \o ZeroFill(Decimal(m), 2) \o <<"-">> \o ZeroFill(Decimal(d), 2)


(***************************************************************************)
(* vais/search.py: convert_to_human_readable_date                          *)
(* The outcome of a call is a returned string or an escaping exception.    *)
(***************************************************************************)
Chars(s) == [i \in 1..Len(s) |-> SubSeq(s, i, i)]

None == <<"None">>

Returned(v) == [kind |-> "return", val |-> v, exc |-> ""]
Raised(e)   == [kind |-> "raise", val |-> <<>>, exc |-> e]

\* dt - timedelta(hours=h): datetime arithmetic raises OverflowError when the
\* result leaves datetime.min .. datetime.max; minutes and seconds are kept,
\* so the range test is on the day the result falls on
MinusHours(dt, h) ==
    LET ord == (ToOrdinal(dt.year, dt.month, dt.day) * 24 + dt.hour - h) \div 24
    IN  IF ord >= 1 /\ ord <= MaxOrdinal THEN [ok |-> TRUE, ord |-> ord]
        ELSE [ok |-> FALSE, ord |-> 0]

\* lines 40-54: the hours of the timezone designator, or a refusal
HoursOffset(timezone_offset) ==
    IF timezone_offset = <<>> THEN [ok |-> TRUE, val |-> 0]
    ELSE IF StartsWith(timezone_offset, <<"Z">>) THEN [ok |-> TRUE, val |-> 0]
    ELSE IF timezone_offset[1] \in {"+", "-"} THEN PyInt(Take(timezone_offset, 3))
    ELSE [ok |-> FALSE, val |-> 0]

FormatOrdinal(ord, pad) ==
    LET d == FromOrdinal(ord) IN Strftime(d.year, d.month, d.day, pad)

convert_to_human_readable_date(s, pad) ==
    IF s = None \/ s = <<>> THEN Returned(<<>>)
    ELSE IF StartsWith(s, <<"D", ":">>) THEN
        LET rest == Drop(s, 2)
            dt   == StrptimeCompact(Take(rest, 14))
            off  == HoursOffset(Drop(rest, 14))
        IN  IF ~dt.ok THEN Returned(<<>>)
            ELSE IF ~off.ok THEN Returned(<<>>)
            ELSE LET r == MinusHours(dt, off.val) IN
                 IF ~r.ok THEN Raised("OverflowError")
                 ELSE Returned(FormatOrdinal(r.ord, pad))
    ELSE IF Len(s) > 20 THEN
        LET dt == StrptimeCtime(s) IN
        IF ~dt.ok THEN Returned(<<>>)       \* ValueError, caught at line 69
        ELSE Returned(Strftime(dt.year, dt.month, dt.day, pad))
    ELSE Returned(<<>>)

(***************************************************************************)
(* The date strings a call is given                                        *)
(***************************************************************************)
Stamp(y, mo, d, h, mi, sec) ==
    ZeroFill(Decimal(y), 4) \o ZeroFill(Decimal(mo), 2) \o ZeroFill(Decimal(d), 2)
    \o ZeroFill(Decimal(h), 2) \o ZeroFill(Decimal(mi), 2) \o ZeroFill(Decimal(sec), 2)

StampYears == {0, 1, 999, 2023, 2024, 9999}
StampDays  == {<<1, 1>>, <<6, 15>>, <<12, 31>>, <<2, 29>>, <<3, 1>>}
StampTimes == {<<0, 0, 0>>, <<2, 0, 0>>, <<12, 0, 0>>, <<23, 59, 59>>, <<25, 0, 0>>}

Designators ==
    { Chars(""), Chars("Z"), Chars("+05'00'"), Chars("-05'00'"), Chars("+05'30'"),
      Chars("+00'00'"), Chars("+99"), Chars("-99"), Chars("+5"), Chars("+5 "),
      Chars("+"), Chars("+ 5"), Chars("-0x"), Chars("05'00'"), Chars("-02'00'"),
      Chars("+23'59'"), Chars("-24") }

FamilyA ==
    { <<"D", ":">> \o Stamp(y, md[1], md[2], t[1], t[2], t[3]) \o z :
        y \in StampYears, md \in StampDays, t \in StampTimes, z \in Designators }

OtherInputs ==
    { None, Chars(""), Chars("D:"), Chars("D:2023"),
      Chars("D:202311111111"), Chars("D:2023111111"), Chars("D:20231 1010101"),
      Chars("D:202306151200+05'00'"), Chars("D:2023061512000"),
      Chars("D:2023-06-15T12:00:00Z"), Chars("D:20230615120060"),
      Chars("20230615120000"), Chars("2023-06-15"), Chars("0001-01-01"),
      Chars("2023-06-15T12:00:00Z"), Chars("2023-06-15T12:00:00+00:00"),
      Chars("Tue Jan 02 15:04:05 2024"), Chars("tue jan  2 15:04:05 2024"),
      Chars("Mon Jan 02 15:04:05 2024"), Chars("Tue Jan 02 15:04:05 2024 "),
      Chars(" Tue Jan 02 15:04:05 2024"), Chars("Tue Feb 30 15:04:05 2023"),
      Chars("Tue Feb 29 23:59:59 2024"), Chars("Tuesday Jan 02 15:04:05 2024"),
      Chars("Tue Jan 02 5:4:5 20240000"), Chars("Sat Jan 01 00:00:00 0001"),
      Chars("Fri Dec 31 23:59:59 9999"), Chars("Sat Jan 01 00:00:00 0000"),
      Chars("Tue Jan 02 24:04:05 2024"), Chars("Tue Jan 02 15:04:60 2024"),
      Chars("Tue Jan 02 15-04-05 2024") }

DateInputs == FamilyA \cup OtherInputs

(***************************************************************************)
(* One call of convert_to_human_readable_date, as extract_relevant_data    *)
(* makes it for creationdate and moddate                                   *)
(***************************************************************************)
InitIdleDate ==
    /\ date_str = <<>> /\ zeroPadYear = FALSE /\ dpc = "idle"
    /\ dret = <<>> /\ dexc = ""

InitIdleCons ==
    /\ files = <<>> /\ df = <<>> /\ df_in = <<>> /\ date_dtype = "object"
    /\ cpc = "idle" /\ saved = <<>>

InitIdleEval ==
    /\ backend = "none" /\ credentials = TRUE /\ input = <<>> /\ row = 0
    /\ log = <<>> /\ status = <<>> /\ results = <<>> /\ epc = "idle"
    /\ written = <<>> /\ fatal = ""

InitDate ==
    /\ date_str \in DateInputs
    /\ zeroPadYear \in BOOLEAN
    /\ dpc = "call"
    /\ dret = <<>>
    /\ dexc = ""
    /\ InitIdleCons /\ InitIdleEval

\* the call returns a value
ConvertReturns ==
    /\ dpc = "call"
    /\ LET out == convert_to_human_readable_date(date_str, zeroPadYear) IN
       /\ out.kind = "return"
       /\ dret' = out.val
       /\ dexc' = ""
       /\ dpc' = "returned"
    /\ UNCHANGED <<date_str, zeroPadYear, consVars, evalVars>>

\* an exception escapes the call
ConvertRaises ==
    /\ dpc = "call"
    /\ LET out == convert_to_human_readable_date(date_str, zeroPadYear) IN
       /\ out.kind = "raise"
       /\ dexc' = out.exc
       /\ dret' = <<>>
       /\ dpc' = "raised"
    /\ UNCHANGED <<date_str, zeroPadYear, consVars, evalVars>>

NextDate == ConvertReturns \/ ConvertRaises

SpecDate == InitDate /\ [][NextDate]_vars


(***************************************************************************)
(* eval/consolidate.py                                                     *)
(* A DataFrame is a sequence of rows; a row carries its index label (idx), *)
(* the columns query, title, creation_date and, once ranked, rank; title    *)
(* stands for the columns no stage reads (title, url, snippet,             *)
(* modified_date).  A creation_date cell is NaN or a string.               *)
(* The dtype of the creation_date column is part of the DataFrame: a       *)
(* column pd.read_csv found empty in every row is float64, not object.     *)
(***************************************************************************)
NaN == <<"NaN">>

\* characters in code-point order, for comparing strings as Python does
Alphabet == Chars(" '+-0123456789:ABCDEFGHIJKLMNOPQRSTUVWXYZabcdefghijklmnopqrstuvwxyz")

Code(c) == CHOOSE i \in 1..Len(Alphabet) : Alphabet[i] = c

RECURSIVE StrLess(_, _)
StrLess(a, b) ==
    IF b = <<>> THEN FALSE
    ELSE IF a = <<>> THEN TRUE
    ELSE IF a[1] # b[1] THEN Code(a[1]) < Code(b[1])
    ELSE StrLess(Tail(a), Tail(b))

\* Series.str.contains(pat) for a literal pat: pat occurs somewhere in s
Contains(s, pat) ==
    \E i \in 1..(Len(s) - Len(pat) + 1) : SubSeq(s, i, i + Len(pat) - 1) = pat

MaxRows == 3
NumFiles == 3

\* the cells of the CSV files; an empty cell is the empty text
Queries == {Chars("q1"), Chars("q2")}
Titles  == {Chars("A")}
DateCells ==
    {Chars(""), Chars("2022-01-01"), Chars("2023-05-01"), Chars("2024-09-09")}

CsvRows == [query : Queries, title : Titles, creation_date : DateCells]

RECURSIVE SeqsUpTo(_, _)
SeqsUpTo(S, n) ==
    IF n = 0 THEN {<<>>}
    ELSE LET shorter == SeqsUpTo(S, n - 1) IN
         shorter \cup {Append(t, x) : t \in {u \in shorter : Len(u) = n - 1}, x \in S}

RECURSIVE TotalRows(_)
TotalRows(fs) == IF fs = <<>> THEN 0 ELSE Len(Head(fs)) + TotalRows(Tail(fs))

\* pd.read_csv(file): the rows of one file, index 0..n-1; an empty cell is NaN
ReadCsv(table) ==
    [i \in 1..Len(table) |->
        [idx |-> i - 1, query |-> table[i].query, title |-> table[i].title,
         creation_date |-> IF table[i].creation_date = <<>> THEN NaN
                           ELSE table[i].creation_date]]

\* the dtype read_csv infers for the creation_date column of one file
ColumnDtype(frame) ==
    IF frame # <<>> /\ \A i \in 1..Len(frame) : frame[i].creation_date = NaN
    THEN "float64" ELSE "object"

RECURSIVE Flatten(_)
Flatten(frames) == IF frames = <<>> THEN <<>> ELSE Head(frames) \o Flatten(Tail(frames))

Reindexed(rows) == [i \in 1..Len(rows) |-> [rows[i] EXCEPT !.idx = i - 1]]

\* a concatenation that would drop a row already seen (drop_duplicates); the
\* code does not do this
RECURSIVE DropRepeated(_, _)
DropRepeated(rows, seen) ==
    IF rows = <<>> THEN <<>>
    ELSE LET k == [Head(rows) EXCEPT !.idx = 0] IN
         IF k \in seen THEN DropRepeated(Tail(rows), seen)
         ELSE <<Head(rows)>> \o DropRepeated(Tail(rows), seen \cup {k})

ConcatDedup(frames) == Reindexed(DropRepeated(Flatten(frames), {}))

\* pd.concat(dataframes, ignore_index=True): all rows, frame after frame, relabelled
Concat(frames) == Reindexed(Flatten(frames))

\* the dtypes concat can give the column: object as soon as one frame holds a
\* string; float64 when every frame with rows is float64; a frame without rows
\* (object) beside float64 frames counts or not, by pandas version
ConcatDtypes(frames) ==
    LET withRows == {i \in 1..Len(frames) : frames[i] # <<>>} IN
    IF withRows = {} THEN {"object"}
    ELSE IF \E i \in withRows : ColumnDtype(frames[i]) = "object" THEN {"object"}
    ELSE IF \A i \in 1..Len(frames) : i \in withRows THEN {"float64"}
    ELSE {"float64", "object"}

\* lines 41-45: the rows the boolean mask keeps
KeepsRow(r) ==
    \/ (r.creation_date # NaN /\ (\/ Contains(r.creation_date, Chars("2023"))
                                  \/ Contains(r.creation_date, Chars("2024"))))
    \/ r.creation_date = NaN
    \/ r.creation_date = <<>>

Orderings(n) == {f \in [1..n -> 1..n] : \A i, j \in 1..n : f[i] = f[j] => i = j}

\* line 46: sort_values(by='creation_date', ascending=False, na_position='last').
\* The rows with a date come in descending order of the string, the NaN rows
\* after them in the order they had; the default sort is not stable, so rows
\* with the same date come in any order.
SortedByDate(rows) ==
    LET dated == SelectSeq(rows, LAMBDA r : r.creation_date # NaN)
        nans  == SelectSeq(rows, LAMBDA r : r.creation_date = NaN)
        n     == Len(dated)
    IN  { [i \in 1..n |-> dated[f[i]]] \o nans :
            f \in { g \in Orderings(n) :
                      \A i, j \in 1..n :
                          i < j => ~StrLess(dated[g[i]].creation_date,
                                            dated[g[j]].creation_date) } }

\* df[name] = v and df.drop(columns=[name]) on one row
WithColumn(r, name, v) == [f \in DOMAIN r \cup {name} |-> IF f = name THEN v ELSE r[f]]

WithoutColumn(r, name) == [f \in DOMAIN r \ {name} |-> r[f]]

\* line 68: fillna('9999-12-31')
Sentinel == Chars("9999-12-31")

TempCreationDate(r) == IF r.creation_date = NaN THEN Sentinel ELSE r.creation_date

\* a fillna(..., inplace=True) on creation_date itself, copied to the new column
FillTempInPlace(rows) ==
    [i \in 1..Len(rows) |->
        WithColumn([rows[i] EXCEPT !.creation_date = TempCreationDate(rows[i])],
                   "temp_creation_date", TempCreationDate(rows[i]))]

\* line 68: df['temp_creation_date'] = df['creation_date'].fillna('9999-12-31')
FillTemp(rows) ==
    [i \in 1..Len(rows) |->
        WithColumn(rows[i], "temp_creation_date", TempCreationDate(rows[i]))]

\* what rank(method='min') would give: rows with the same value share a rank
RankOfMin(rows, i) ==
    1 + Cardinality({j \in 1..Len(rows) :
            /\ rows[j].query = rows[i].query
            /\ StrLess(rows[i].temp_creation_date, rows[j].temp_creation_date)})

\* a rank that numbers rows with the same value from the last seen to the first
RankOfLastSeen(rows, i) ==
    1 + Cardinality({j \in 1..Len(rows) :
            /\ rows[j].query = rows[i].query
            /\ \/ StrLess(rows[i].temp_creation_date, rows[j].temp_creation_date)
               \/ (j > i /\ rows[j].temp_creation_date = rows[i].temp_creation_date)})

\* line 71: groupby('query')['temp_creation_date'].rank(method='first',
\* ascending=False): within the rows of the same query, one more than the
\* number of rows with a greater value, or with the same value and an earlier
\* position
RankOf(rows, i) ==
    1 + Cardinality({j \in 1..Len(rows) :
            /\ rows[j].query = rows[i].query
            /\ \/ StrLess(rows[i].temp_creation_date, rows[j].temp_creation_date)
               \/ (j < i /\ rows[j].temp_creation_date = rows[i].temp_creation_date)})

\* line 71: df['rank'] = ... .astype('Int64')
AssignRank(rows) ==
    [i \in 1..Len(rows) |-> WithColumn(rows[i], "rank", RankOf(rows, i))]

\* line 74: df.drop(columns=['temp_creation_date'], inplace=True)
DropTemp(rows) ==
    [i \in 1..Len(rows) |-> WithoutColumn(rows[i], "temp_creation_date")]

\* lines 68-77: the table rank_dataframe returns
Ranked(rows) == DropTemp(AssignRank(FillTemp(rows)))

\* line 94: the order of sort_values(by=['query', 'rank'])
RowBefore(a, b) ==
    \/ StrLess(a.query, b.query)
    \/ (a.query = b.query /\ a.rank < b.rank)

\* the table written as it is, were line 94 left out
SortedByQueryRankNot(rows) == rows

\* line 94: sort_values(by=['query', 'rank']): rows by query, then by rank
SortedByQueryRank(rows) ==
    LET n == Len(rows)
        pos(i) == 1 + Cardinality({j \in 1..n :
                        RowBefore(rows[j], rows[i])
                        \/ (j < i /\ ~RowBefore(rows[i], rows[j]))})
    IN  [k \in 1..n |-> rows[CHOOSE i \in 1..n : pos(i) = k]]

\* the ways of spreading at most MaxRows rows over the NumFiles files
FileCuts(n) == {c \in [0..NumFiles -> 0..n] :
                c[0] = 0 /\ c[NumFiles] = n /\ \A i \in 1..NumFiles : c[i - 1] <= c[i]}

FileSets ==
    { [i \in 1..NumFiles |-> SubSeq(all, c[i - 1] + 1, c[i])] :
        <<all, c>> \in { <<a, k>> \in SeqsUpTo(CsvRows, MaxRows)
                                      \X [0..NumFiles -> 0..MaxRows] :
                            k \in FileCuts(Len(a)) } }

(***************************************************************************)
(* run(): load_and_combine_csv, filter_and_sort_dataframe, rank_dataframe, *)
(* save_dataframe, each re-raising what it meets                           *)
(***************************************************************************)
InitCons ==
    /\ files \in FileSets
    /\ df = <<>>
    /\ df_in = <<>>
    /\ date_dtype = "object"
    /\ cpc = "start"
    /\ saved = <<>>
    /\ InitIdleDate /\ InitIdleEval

\* lines 17-21
LoadAndCombine ==
    /\ cpc = "start"
    /\ LET dataframes == [i \in 1..Len(files) |-> ReadCsv(files[i])] IN
       /\ df' = Concat(dataframes)
       /\ date_dtype' \in ConcatDtypes(dataframes)
    /\ df_in' = df
    /\ cpc' = "loaded"
    /\ UNCHANGED <<files, saved, dateVars, evalVars>>

\* lines 40-48: the .str accessor exists only on an object column
FilterAndSort ==
    /\ cpc = "loaded"
    /\ date_dtype = "object"
    /\ df' \in SortedByDate(SelectSeq(df, KeepsRow))
    /\ df_in' = df
    /\ cpc' = "filtered"
    /\ UNCHANGED <<files, date_dtype, saved, dateVars, evalVars>>

\* lines 42, 49-51, 117-119: AttributeError from .str on a float64 column
FilterRaises ==
    /\ cpc = "loaded"
    /\ date_dtype = "float64"
    /\ cpc' = "failed"
    /\ df_in' = df
    /\ UNCHANGED <<files, df, date_dtype, saved, dateVars, evalVars>>

\* lines 66-77, as run() calls it on the filtered table
RankDataframe ==
    /\ cpc = "filtered"
    /\ df' = Ranked(df)
    /\ df_in' = df
    /\ cpc' = "ranked"
    /\ UNCHANGED <<files, date_dtype, saved, dateVars, evalVars>>

\* lines 66-77, called on the merged table as it is
RankMerged ==
    /\ cpc = "loaded"
    /\ df' = Ranked(df)
    /\ df_in' = df
    /\ cpc' = "ranked"
    /\ UNCHANGED <<files, date_dtype, saved, dateVars, evalVars>>

\* lines 92-96
SaveDataframe ==
    /\ cpc = "ranked"
    /\ saved' = SortedByQueryRank(df)
    /\ cpc' = "done"
    /\ UNCHANGED <<files, df, df_in, date_dtype, dateVars, evalVars>>

NextCons ==
    \/ LoadAndCombine
    \/ FilterAndSort
    \/ FilterRaises
    \/ RankDataframe
    \/ RankMerged
    \/ SaveDataframe

SpecCons == InitCons /\ [][NextCons]_vars


(***************************************************************************)
(* eval/serp.py and eval/vais.py: evaluate                                 *)
(* One attempt of a fetch meets "ok" or an exception, named by its type.   *)
(***************************************************************************)
MaxInputRows == 2
MaxAttempts == 5

InputRows ==
    { [company_name |-> Chars(" Acme "), url |-> Chars("acme.com")],
      [company_name |-> Chars("Bolt"),   url |-> Chars("bolt.io ")] }

\* what a successful fetch returns: a list of result records
RecordLists ==
    { <<>>, <<[title |-> "t1"]>>, <<[title |-> "t1"], [title |-> "t2"]>> }

Strip(s) == LStrip(RStrip(s))

\* serp.py lines 77-79, vais.py lines 43-45
SearchQuery(r) ==
    Strip(r.company_name) \o Chars(" Sustainability Report 2023 filetype:pdf site:")
    \o Strip(r.url)

\* serp.py lines 85-87, vais.py lines 50-52: every record is tagged with the query
Tag(records, q) ==
    [i \in 1..Len(records) |-> [title |-> records[i].title, query |-> q]]

\* serp/search.py lines 47-61: what one request can meet.  Without a readable
\* key file load_api_key returns None and the request is sent with it.
SerpOutcomes(creds) ==
    IF creds THEN {"ok", "ConnectionError", "Timeout", "HTTPError"}
    ELSE {"ConnectionError", "Timeout", "HTTPError"}

\* a retry without retry_if_exception_type: any exception is tried again
RetryAgainAnyError(exc, made) == made < MaxAttempts

\* eval/serp.py line 47: retry_if_exception_type((ConnectionError, Timeout)),
\* stop_after_attempt(5); made is the number of attempts made so far
RetryAgain(exc, made) ==
    exc \in {"ConnectionError", "Timeout"} /\ made < MaxAttempts

\* an evaluate without the inner try: the exception of the fetch is re-raised
OnFetchExceptionRaise == "raise"

\* eval/serp.py lines 88-89: evaluate logs an exception of the fetch and goes on
OnFetchException == "skip"

\* a search_data_store without its except clause: the exception propagates
SearchDataStorePropagates(outcome) ==
    IF outcome = "ok" THEN [raised |-> FALSE, response |-> "response"]
    ELSE [raised |-> TRUE, response |-> "None"]

\* vais/search.py lines 83-123: the response, or None when anything was raised
search_data_store(outcome) ==
    IF outcome = "ok" THEN [raised |-> FALSE, response |-> "response"]
    ELSE [raised |-> FALSE, response |-> "None"]

\* vais/search.py lines 75-123: what the search can meet.  Without credentials
\* the client cannot be created.
VaisOutcomes(creds) ==
    IF creds THEN {"ok", "GoogleAPICallError"} ELSE {"DefaultCredentialsError"}

Done(kind, made, last, records) ==
    [kind |-> kind, attempts |-> made, last |-> last, records |-> records]

InitEval ==
    /\ backend \in {"serp", "vais"}
    /\ credentials \in BOOLEAN
    /\ input \in SeqsUpTo(InputRows, MaxInputRows)
    /\ row = 0
    /\ log = <<>>
    /\ status = <<>>
    /\ results = <<>>
    /\ epc = "start"
    /\ written = <<>>
    /\ fatal = ""
    /\ InitIdleDate /\ InitIdleCons

\* serp.py lines 70-76, vais.py lines 36-42: the input file is opened
OpenInput ==
    /\ epc = "start"
    /\ epc' = "loop"
    /\ row' = 1
    /\ UNCHANGED <<backend, credentials, input, log, status, results, written, fatal,
                   dateVars, consVars>>

\* serp.py lines 74, 94-96, vais.py lines 40, 57-59: it cannot be opened
OpenInputFails ==
    /\ epc = "start"
    /\ epc' = "aborted"
    /\ fatal' = "input"
    /\ UNCHANGED <<backend, credentials, input, row, log, status, results, written,
                   dateVars, consVars>>

\* eval/serp.py lines 47-57 and 83-89: one attempt of the retrying
\* fetch_search_results for the current row, and what follows from it
SerpAttempt ==
    /\ backend = "serp"
    /\ epc = "loop"
    /\ row <= Len(input)
    /\ \E o \in SerpOutcomes(credentials), recs \in RecordLists :
        LET made == Len(log) + 1 IN
        IF o = "ok" THEN
            /\ results' = results \o Tag(recs, SearchQuery(input[row]))
            /\ status' = Append(status, Done("ok", made, o, recs))
            /\ row' = row + 1
            /\ log' = <<>>
            /\ UNCHANGED <<epc, fatal>>
        ELSE IF RetryAgain(o, made) THEN
            /\ recs = <<>>
            /\ log' = Append(log, o)
            /\ UNCHANGED <<row, status, results, epc, fatal>>
        ELSE IF OnFetchException = "skip" THEN
            /\ recs = <<>>
            /\ status' = Append(status, Done("failed", made, o, <<>>))
            /\ row' = row + 1
            /\ log' = <<>>
            /\ UNCHANGED <<results, epc, fatal>>
        ELSE
            /\ recs = <<>>
            /\ epc' = "aborted"
            /\ fatal' = "fetch"
            /\ UNCHANGED <<row, log, status, results>>
    /\ UNCHANGED <<backend, credentials, input, written, dateVars, consVars>>

\* eval/vais.py lines 49-52 with vais/search.py lines 187-197: get() for the
\* current row; a search that failed gives None, and None gives no records
VaisGet ==
    /\ backend = "vais"
    /\ epc = "loop"
    /\ row <= Len(input)
    /\ \E o \in VaisOutcomes(credentials), recs \in RecordLists :
        LET r == search_data_store(o) IN
        IF r.raised THEN
            /\ recs = <<>>
            /\ epc' = "aborted"
            /\ fatal' = "fetch"
            /\ UNCHANGED <<row, status, results>>
        ELSE IF r.response = "None" THEN
            /\ recs = <<>>
            /\ status' = Append(status, Done("failed", 1, o, <<>>))
            /\ row' = row + 1
            /\ UNCHANGED <<results, epc, fatal>>
        ELSE
            /\ results' = results \o Tag(recs, SearchQuery(input[row]))
            /\ status' = Append(status, Done("ok", 1, o, recs))
            /\ row' = row + 1
            /\ UNCHANGED <<epc, fatal>>
    /\ UNCHANGED <<backend, credentials, input, log, written, dateVars, consVars>>

\* vais/search.py lines 140-182 with eval/vais.py lines 57-59: an exception of
\* extract_relevant_data (convert_to_human_readable_date raising among them)
\* is not caught before evaluate, which re-raises it
VaisExtractRaises ==
    /\ backend = "vais"
    /\ epc = "loop"
    /\ row <= Len(input)
    /\ credentials
    /\ epc' = "aborted"
    /\ fatal' = "extract"
    /\ UNCHANGED <<backend, credentials, input, row, log, status, results, written,
                   dateVars, consVars>>

\* serp.py lines 91-93, vais.py lines 54-56
WriteOutput ==
    /\ epc = "loop"
    /\ row > Len(input)
    /\ written' = results
    /\ epc' = "done"
    /\ UNCHANGED <<backend, credentials, input, row, log, status, results, fatal,
                   dateVars, consVars>>

\* serp.py lines 91, 94-96, vais.py lines 54, 57-59: the output cannot be written
WriteOutputFails ==
    /\ epc = "loop"
    /\ row > Len(input)
    /\ epc' = "aborted"
    /\ fatal' = "output"
    /\ UNCHANGED <<backend, credentials, input, row, log, status, results, written,
                   dateVars, consVars>>

NextEval ==
    \/ OpenInput
    \/ OpenInputFails
    \/ SerpAttempt
    \/ VaisGet
    \/ VaisExtractRaises
    \/ WriteOutput
    \/ WriteOutputFails

SpecEval == InitEval /\ [][NextEval]_vars


(***************************************************************************)
(* Properties of convert_to_human_readable_date (SpecDate)                 *)
(***************************************************************************)

\* C1: whatever string the call is given, it returns a string (a date or
\* the empty string) and no exception escapes it.
C1_NeverRaises == dpc # "call" => (dpc = "returned" /\ dexc = "")

\* a family-A string: "D:", fourteen digits that are a date and a time, then
\* nothing, "Z", or a sign and two hour digits followed by anything
C2_Field(s, from, len) == NumVal(SubSeq(s, from, from + len - 1))

C2_IsFamilyA(s) ==
    /\ s # None
    /\ StartsWith(s, <<"D", ":">>)
    /\ Len(s) >= 16
    /\ AllDigits(SubSeq(s, 3, 16))
    /\ ValidDateTime(C2_Field(s, 3, 4), C2_Field(s, 7, 2), C2_Field(s, 9, 2),
                     C2_Field(s, 11, 2), C2_Field(s, 13, 2), C2_Field(s, 15, 2))
    /\ LET z == Drop(s, 16) IN
       \/ z = <<>>
       \/ z = <<"Z">>
       \/ (Len(z) >= 3 /\ z[1] \in {"+", "-"} /\ IsDigit(z[2]) /\ IsDigit(z[3]))

C2_OffsetHours(s) ==
    LET z == Drop(s, 16) IN
    IF z = <<>> \/ z = <<"Z">> THEN 0
    ELSE IF z[1] = "-" THEN 0 - NumVal(SubSeq(z, 2, 3)) ELSE NumVal(SubSeq(z, 2, 3))

\* the calendar, one day at a time (year 0 and year 10000 exist on it)
C2_MonthDays(y, m) ==
    IF m = 2 THEN (IF y % 4 = 0 /\ (y % 100 # 0 \/ y % 400 = 0) THEN 29 ELSE 28)
    ELSE IF m \in {4, 6, 9, 11} THEN 30 ELSE 31

C2_NextDay(t) ==
    IF t[3] < C2_MonthDays(t[1], t[2]) THEN <<t[1], t[2], t[3] + 1>>
    ELSE IF t[2] < 12 THEN <<t[1], t[2] + 1, 1>>
    ELSE <<t[1] + 1, 1, 1>>

C2_PrevDay(t) ==
    IF t[3] > 1 THEN <<t[1], t[2], t[3] - 1>>
    ELSE IF t[2] > 1 THEN <<t[1], t[2] - 1, C2_MonthDays(t[1], t[2] - 1)>>
    ELSE <<t[1] - 1, 12, 31>>

RECURSIVE C2_ShiftDays(_, _)
C2_ShiftDays(t, k) ==
    IF k = 0 THEN t
    ELSE IF k > 0 THEN C2_ShiftDays(C2_NextDay(t), k - 1)
    ELSE C2_ShiftDays(C2_PrevDay(t), k + 1)

C2_Expected(s) ==
    LET t == C2_ShiftDays(<<C2_Field(s, 3, 4), C2_Field(s, 7, 2), C2_Field(s, 9, 2)>>,
                          (C2_Field(s, 11, 2) - C2_OffsetHours(s)) \div 24)
    IN  (IF zeroPadYear THEN ZeroFill(Decimal(t[1]), 4) ELSE Decimal(t[1]))
        \o <<"-">> \o ZeroFill(Decimal(t[2]), 2)
        \o <<"-">> \o ZeroFill(Decimal(t[3]), 2)

\* C2: for a valid family-A string the call returns, as year-MM-DD (the year
\* as the platform writes it), the date of the timestamp less the whole hours
\* of the offset (none for an absent or "Z" offset), one or more days earlier
\* or later when that crosses midnight.
C2_ReturnsShiftedDate ==
    (dpc # "call" /\ C2_IsFamilyA(date_str))
        => (dpc = "returned" /\ dret = C2_Expected(date_str))

(***************************************************************************)
(* Properties of the consolidation pipeline (SpecCons)                     *)
(***************************************************************************)
C_Group(rows, q) == {i \in 1..Len(rows) : rows[i].query = q}

\* C3: after rank_dataframe, on the merged table as on the filtered one, the
\* ranks of the n rows of each query are exactly 1..n, none repeated.
C3_RankBijection ==
    cpc \in {"ranked", "done"} =>
        \A q \in Queries :
            /\ {df[i].rank : i \in C_Group(df, q)} = 1..Cardinality(C_Group(df, q))
            /\ \A i, j \in C_Group(df, q) : df[i].rank = df[j].rank => i = j

C3_Witness ==
    /\ cpc = "ranked"
    /\ Len(df) = 3
    /\ \E i, j, k \in 1..3 :
        /\ i # j
        /\ df[i].query = df[j].query
        /\ df[i].creation_date = df[j].creation_date
        /\ df[k].query # df[i].query
        /\ df[k].rank = 1

\* C4: within a query, a row without a creation_date ranks after every row
\* that has one.
C4_MissingRanksLast ==
    cpc \in {"ranked", "done"} =>
        \A i, j \in 1..Len(df) :
            (/\ df[i].query = df[j].query
             /\ df[i].creation_date = NaN
             /\ df[j].creation_date # NaN) => df[i].rank > df[j].rank

\* the rows of the table the stage was given that the stage has to keep
C5_Wanted(r) ==
    \/ r.creation_date = NaN
    \/ r.creation_date = <<>>
    \/ \E i \in 1..(Len(r.creation_date) - 3) :
          SubSeq(r.creation_date, i, i + 3) \in {Chars("2023"), Chars("2024")}

\* C5: filter_and_sort_dataframe returns exactly the rows of its input whose
\* creation_date holds "2023" or "2024" or is missing, each once and
\* unchanged, the dated ones first by descending date, the missing ones last.
C5_FilterKeepsAndOrders ==
    /\ cpc # "failed"
    /\ cpc = "filtered" =>
        /\ \A r \in {df_in[i] : i \in 1..Len(df_in)} :
              Cardinality({i \in 1..Len(df) : df[i] = r})
                  = (IF C5_Wanted(r) THEN 1 ELSE 0)
        /\ \A i \in 1..Len(df) : \E k \in 1..Len(df_in) : df[i] = df_in[k]
        /\ \A i, j \in 1..Len(df) :
              i < j =>
                 \/ df[j].creation_date = NaN
                 \/ (/\ df[i].creation_date # NaN
                     /\ ~StrLess(df[i].creation_date, df[j].creation_date))

\* C6: the rows written by save_dataframe are in ascending order of query
\* and, within a query, of rank.
C6_SavedOrdered ==
    cpc = "done" =>
        /\ Len(saved) = Len(df)
        /\ \A k \in 1..(Len(saved) - 1) :
              \/ StrLess(saved[k].query, saved[k + 1].query)
              \/ (/\ saved[k].query = saved[k + 1].query
                  /\ saved[k].rank < saved[k + 1].rank)

C6_Witness ==
    /\ cpc = "done"
    /\ Len(saved) = 3
    /\ saved # df
    /\ saved[1].query # saved[3].query

\* where the rows of file f start in the merged table
RECURSIVE C7_Offset(_)
C7_Offset(f) == IF f = 1 THEN 0 ELSE C7_Offset(f - 1) + Len(files[f - 1])

\* C7: the merged table has as many rows as the files together, and row p of
\* file f is its row (rows of earlier files) + p: nothing is dropped, also
\* not a row that occurs twice, and nothing changes place.
C7_ConcatKeepsAll ==
    cpc = "loaded" =>
        /\ Len(df) = TotalRows(files)
        /\ \A f \in 1..NumFiles : \A p \in 1..Len(files[f]) :
              LET r == df[C7_Offset(f) + p] IN
              /\ r.query = files[f][p].query
              /\ r.title = files[f][p].title
              /\ (files[f][p].creation_date # <<>>
                    => r.creation_date = files[f][p].creation_date)
              /\ (files[f][p].creation_date = <<>> => r.creation_date = NaN)

C7_Witness ==
    /\ cpc = "loaded"
    /\ Len(df) = 3
    /\ \E f, g \in 1..NumFiles :
          /\ f < g
          /\ files[f] # <<>> /\ files[g] # <<>>
          /\ files[f][1] = files[g][1]

\* a YYYY-MM-DD creation_date as the number YYYYMMDD
C11_DateNum(d) ==
    NumVal(SubSeq(d, 1, 4)) * 10000 + NumVal(SubSeq(d, 6, 7)) * 100
        + NumVal(SubSeq(d, 9, 10))

\* the rank given to the row at position a of the table rank_dataframe was given
C11_RankAt(a) ==
    LET i == CHOOSE k \in 1..Len(df) : df[k].idx = df_in[a].idx IN df[i].rank

C11_Dated(a, b) ==
    /\ df_in[a].query = df_in[b].query
    /\ df_in[a].creation_date # NaN
    /\ df_in[b].creation_date # NaN

\* C11: after rank_dataframe, of two rows of the same query that both have a
\* date, the one with the later date has the smaller rank, and of two with
\* the same date the one that came earlier in the input has the smaller rank;
\* within a query no rank is shared and none is skipped.
C11_RankByDateFirstSeen ==
    cpc \in {"ranked", "done"} =>
        /\ \A a \in 1..Len(df_in) : \E k \in 1..Len(df) : df[k].idx = df_in[a].idx
        /\ \A a, b \in 1..Len(df_in) :
              C11_Dated(a, b) =>
                 /\ C11_DateNum(df_in[a].creation_date)
                        > C11_DateNum(df_in[b].creation_date)
                      => C11_RankAt(a) < C11_RankAt(b)
                 /\ (df_in[a].creation_date = df_in[b].creation_date /\ a < b)
                      => C11_RankAt(a) < C11_RankAt(b)
        /\ \A a \in 1..Len(df_in) :
              /\ C11_RankAt(a) =
                    1 + Cardinality({b \in 1..Len(df_in) :
                            /\ df_in[b].query = df_in[a].query
                            /\ C11_RankAt(b) < C11_RankAt(a)})
              /\ \A b \in 1..Len(df_in) :
                    (b # a /\ df_in[b].query = df_in[a].query)
                        => C11_RankAt(b) # C11_RankAt(a)

C11_Witness ==
    /\ cpc = "ranked"
    /\ \E a, b, c \in 1..Len(df_in) :
          /\ a < b /\ b < c
          /\ C11_Dated(a, b) /\ C11_Dated(b, c)
          /\ df_in[a].creation_date = df_in[b].creation_date
          /\ C11_DateNum(df_in[c].creation_date)
                > C11_DateNum(df_in[a].creation_date)
          /\ C11_RankAt(c) = 1 /\ C11_RankAt(a) = 2 /\ C11_RankAt(b) = 3

\* C12: rank_dataframe returns the rows it was given, in the same order, each
\* with every column as it was (a missing creation_date still missing, not
\* the sentinel), with the rank column added and without the
\* temp_creation_date column.
C12_OnlyAddsRank ==
    cpc \in {"ranked", "done"} =>
        /\ Len(df) = Len(df_in)
        /\ \A i \in 1..Len(df) :
              /\ DOMAIN df[i] = DOMAIN df_in[i] \cup {"rank"}
              /\ "temp_creation_date" \notin DOMAIN df[i]
              /\ \A f \in DOMAIN df_in[i] : df[i][f] = df_in[i][f]
              /\ df_in[i].creation_date = NaN =>
                    (df[i].creation_date = NaN /\ df[i].creation_date # Sentinel)

C12_Witness ==
    /\ cpc = "ranked"
    /\ Len(df) = 3
    /\ \E i, j \in 1..Len(df) :
          /\ df[i].query = df[j].query
          /\ df_in[i].creation_date = NaN
          /\ df[i].creation_date = NaN
          /\ df[i].rank = 1
          /\ df[j].creation_date # NaN
          /\ df[j].rank = 2

(***************************************************************************)
(* Properties of evaluate (SpecEval)                                       *)
(***************************************************************************)
C_Transient == {"ConnectionError", "Timeout"}

\* C8: the retrying fetch makes at most five attempts for a query; an
\* attempt is followed by another only if it met a ConnectionError or a
\* Timeout and fewer than five were made; after such failures it goes on
\* until the fifth; a success or any other failure ends it at once.
C8_RetryPolicy ==
    backend = "serp" =>
        /\ Len(log) < MaxAttempts
        /\ \A k \in 1..Len(log) : log[k] \in C_Transient
        /\ \A k \in 1..Len(status) :
              /\ status[k].attempts >= 1
              /\ status[k].attempts <= MaxAttempts
              /\ (status[k].kind = "failed" /\ status[k].last \in C_Transient)
                    => status[k].attempts = MaxAttempts

C8_Witness ==
    /\ backend = "serp"
    /\ Len(status) = 2
    /\ status[1].kind = "failed" /\ status[1].attempts = MaxAttempts
    /\ status[2].kind = "failed" /\ status[2].last = "HTTPError"
    /\ status[2].attempts = 1

\* the records of the rows fetched so far, each with the query of its row
RECURSIVE C9_Expected(_)
C9_Expected(k) ==
    IF k = 0 THEN <<>>
    ELSE C9_Expected(k - 1) \o
         (IF status[k].kind = "ok"
          THEN [i \in 1..Len(status[k].records) |->
                   [title |-> status[k].records[i].title,
                    query |-> SearchQuery(input[k])]]
          ELSE <<>>)

\* C9: a fetch that fails never makes evaluate re-raise; the row adds no
\* record, the next row is taken, and what is written in the end is the
\* records of the rows whose fetch succeeded, tagged, in the order of the rows.
C9_FetchFailureNotFatal ==
    /\ fatal # "fetch"
    /\ results = C9_Expected(Len(status))
    /\ epc = "loop" => Len(status) = row - 1
    /\ epc = "done" => (Len(status) = Len(input) /\ written = C9_Expected(Len(input)))

C9_Witness ==
    /\ epc = "done"
    /\ Len(status) = 2
    /\ status[1].kind = "failed"
    /\ status[2].kind = "ok"
    /\ Len(written) = 2

\* C10: with the credentials missing, the error reaches the caller of
\* evaluate: no query is skipped over and no output is written.
C10_MissingCredentialsAbort ==
    (~credentials /\ epc \in {"loop", "done", "aborted"} /\ Len(input) >= 1)
        => (Len(status) = 0 /\ epc # "done")

\* C10 as the code has it: missing credentials make evaluate re-raise
\* nothing; every row is taken in turn, the discovery search gives no record
\* for any of them, and the output is written.
C10_MissingCredentialsSkipped ==
    ~credentials =>
        /\ fatal \notin {"fetch", "extract"}
        /\ epc = "loop" => Len(status) = row - 1
        /\ epc = "done" => (Len(status) = Len(input) /\ written = results)
        /\ backend = "vais" =>
              (results = <<>> /\ \A k \in 1..Len(status) : status[k].kind = "failed")

C10_Witness ==
    /\ ~credentials
    /\ backend = "vais"
    /\ epc = "done"
    /\ Len(status) = 2
    /\ status[2].last = "DefaultCredentialsError"

=============================================================================
